---- MODULE Spec2Model ----
(***************************************************************************)
(* Form Field Action Resolution Pipeline of the job-application server    *)
(* (server.py): map_form_fields, resolve_profile_values,                   *)
(* convert_boolean_to_option and the match_fields request handler.         *)
(*                                                                         *)
(* Representation of Python values                                         *)
(*   - a Python str is a sequence of tokens; "." is always a token of its  *)
(*     own and no other token holds a dot, an action tag is one token, so  *)
(*     startswith / split('.') / slicing are computed on the sequence;     *)
(*   - a JSON value is a record [t |-> kind, v |-> payload] with kind one  *)
(*     of "null", "str", "bool", "num", "dict", "list";                    *)
(*   - a dict keyed by field id is a function on a set of ids, a dict      *)
(*     whose iteration order matters is a sequence of [id, value] entries. *)
(***************************************************************************)
EXTENDS Integers, Sequences, FiniteSets, TLC

\* ------------------------------------------------------------------ bounds
\* Number of field ids the mapping generator may mention (ids f1..fN).
MaxFields == 2

\* ------------------------------------------------------------ Python values
NoneV == [t |-> "null", v |-> <<>>]
StrV(s) == [t |-> "str", v |-> s]
BoolV(b) == [t |-> "bool", v |-> IF b THEN <<"True">> ELSE <<"False">>]
NumV(n) == [t |-> "num", v |-> <<n>>]
DictV(f) == [t |-> "dict", v |-> f]
ListV == [t |-> "list", v |-> <<>>]

EmptyDict == [k \in {} |-> NoneV]

\* str.startswith(prefix)
StartsWith(s, p) == Len(s) >= Len(p) /\ SubSeq(s, 1, Len(p)) = p

\* A faulty variant of HasDot: every string passes for a profile path
HasDot_Always(s) == TRUE

\* '.' in s
HasDot(s) == \E i \in 1..Len(s) : s[i] = "."

\* s.split('.'), the segments as strings
RECURSIVE SplitDot(_, _)
SplitDot(s, cur) ==
    IF s = <<>> THEN <<cur>>
    ELSE IF Head(s) = "." THEN <<cur>> \o SplitDot(Tail(s), <<>>)
    ELSE SplitDot(Tail(s), Append(cur, Head(s)))

\* Python truthiness of a JSON value
Truthy(x) ==
    CASE x.t = "null" -> FALSE
      [] x.t = "str"  -> x.v # <<>>
      [] x.t = "bool" -> x.v = <<"True">>
      [] x.t = "num"  -> x.v # <<"0">>
      [] x.t = "dict" -> DOMAIN x.v # {}
      [] x.t = "list" -> x.v # <<>>

\* --------------------------------------------------------------- action tags
T_RESUME == <<"RESUME_UPLOAD">>
T_CL_FULL == <<"COVER_LETTER_FULL">>
T_CL_BODY == <<"COVER_LETTER_BODY">>
T_CL_WHY == <<"COVER_LETTER_WHY">>
T_GENERATE == <<"GENERATE_ANSWER">>
T_NEEDS_HUMAN == <<"NEEDS_HUMAN">>
T_ACK == <<"ACKNOWLEDGE_TRUE">>
T_SKIP == <<"SKIP">>
T_UNKNOWN == <<"UNKNOWN">>

\* SPECIAL_ACTIONS of resolve_profile_values, without its None member
SPECIAL_ACTIONS ==
    {T_RESUME, T_CL_FULL, T_CL_BODY, T_CL_WHY, T_GENERATE, T_NEEDS_HUMAN,
     T_ACK, T_SKIP, T_UNKNOWN}

\* ALWAYS_HUMAN_ACTIONS of match_fields, without its None member
ALWAYS_HUMAN_ACTIONS == {T_NEEDS_HUMAN, T_SKIP}

AUTO_FILLED_ACTIONS ==
    {T_RESUME, T_CL_FULL, T_CL_BODY, T_CL_WHY, T_GENERATE, T_ACK}

\* A faulty variant of mapping_starts_with: the tag must equal the whole value
mapping_starts_with_Exact(mapping_value, keyword) ==
    mapping_value.t = "str" /\ mapping_value.v = keyword

\* mapping_starts_with(mapping_value, keyword)
mapping_starts_with(mapping_value, keyword) ==
    mapping_value.t = "str" /\ StartsWith(mapping_value.v, keyword)

\* "mapping_value in S" for a set S of tags that also holds None
InWithNone(mapping_value, S) ==
    \/ mapping_value.t = "null"
    \/ mapping_value.t = "str" /\ mapping_value.v \in S

IsCoverLetterAction(mapping_value) ==
    \/ mapping_starts_with(mapping_value, T_CL_FULL)
    \/ mapping_starts_with(mapping_value, T_CL_BODY)
    \/ mapping_starts_with(mapping_value, T_CL_WHY)

\* A faulty variant of IsContentAction: GENERATE_ANSWER is not a content action
IsContentAction_NoGenerate(mapping_value) == IsCoverLetterAction(mapping_value)

IsContentAction(mapping_value) ==
    \/ IsCoverLetterAction(mapping_value)
    \/ mapping_starts_with(mapping_value, T_GENERATE)

\* ------------------------------------------------------------ option coercion
\* str.lower() on the option strings of the model
Lower(s) ==
    CASE s \in {"yes", "Yes", "YES"} -> "yes"
      [] s \in {"no", "No", "NO"} -> "no"
      [] s \in {"true", "True"} -> "true"
      [] s \in {"false", "False"} -> "false"
      [] s = "Affirmative" -> "affirmative"
      [] OTHER -> s

\* next(opt['value'] for opt in field_options if opt.get(key).lower() == word)
FirstValue(field_options, key, word) ==
    LET i == CHOOSE i \in 1..Len(field_options) :
                 /\ Lower(field_options[i][key]) = word
                 /\ \A j \in 1..(i - 1) : Lower(field_options[j][key]) # word
    IN field_options[i].value

HasOption(field_options, key, word) ==
    \E i \in 1..Len(field_options) : Lower(field_options[i][key]) = word

\* A faulty variant of PreferredWords: 'true' and 'false' are looked for first
PreferredWords_TrueFirst(b) == IF b THEN <<"true", "yes">> ELSE <<"false", "no">>

\* The two words looked for, in priority order
PreferredWords(b) == IF b THEN <<"yes", "true">> ELSE <<"no", "false">>

\* convert_boolean_to_option(value, field_options); value is a JSON value
convert_boolean_to_option(value, field_options) ==
    IF value.t # "bool" \/ field_options = <<>> THEN value
    ELSE LET w == PreferredWords(value.v = <<"True">>) IN
         IF HasOption(field_options, "value", w[1])
            THEN StrV(<<FirstValue(field_options, "value", w[1])>>)
         ELSE IF HasOption(field_options, "text", w[1])
            THEN StrV(<<FirstValue(field_options, "text", w[1])>>)
         ELSE IF HasOption(field_options, "value", w[2])
            THEN StrV(<<FirstValue(field_options, "value", w[2])>>)
         ELSE IF HasOption(field_options, "text", w[2])
            THEN StrV(<<FirstValue(field_options, "text", w[2])>>)
         ELSE value

\* ------------------------------------------------------------------- profile
K(name) == <<name>>

\* profile['custom_answers'][custom_key] when both exist
CustomAnswerLookup(profile, custom_key) ==
    IF /\ K("custom_answers") \in DOMAIN profile.v
       /\ profile.v[K("custom_answers")].t = "dict"
       /\ custom_key \in DOMAIN profile.v[K("custom_answers")].v
    THEN [ok |-> TRUE, val |-> profile.v[K("custom_answers")].v[custom_key]]
    ELSE [ok |-> FALSE, val |-> NoneV]

\* The for-loop over path_parts: one nested mapping per segment
RECURSIVE WalkPath(_, _)
WalkPath(current_value, path_parts) ==
    IF path_parts = <<>> THEN [ok |-> TRUE, val |-> current_value]
    ELSE IF current_value.t = "dict" /\ Head(path_parts) \in DOMAIN current_value.v
         THEN WalkPath(current_value.v[Head(path_parts)], Tail(path_parts))
         ELSE [ok |-> FALSE, val |-> NoneV]

CUSTOM_PREFIX == <<"custom_answers", ".">>

\* A faulty variant of LookupPath: a custom_answers path is split on its dots and
\* walked like any other path
LookupPath_SplitKey(mapping_value, profile) ==
    WalkPath(profile, SplitDot(mapping_value.v, <<>>))

\* The try block of resolve_profile_values: the value the path reaches
LookupPath(mapping_value, profile) ==
    IF StartsWith(mapping_value.v, CUSTOM_PREFIX)
    THEN CustomAnswerLookup(profile,
             SubSeq(mapping_value.v, Len(CUSTOM_PREFIX) + 1, Len(mapping_value.v)))
    ELSE WalkPath(profile, SplitDot(mapping_value.v, <<>>))

\* ---------------------------------------------------------------- field_map
\* str(i) of the zero-based index of the i-th list element
IndexStr(i) == <<"0", "1", "2", "3", "4", "5", "6", "7">>[i]

\* fields.index(field): the first position holding an equal element
FirstIndexOf(fields, field) ==
    CHOOSE i \in 1..Len(fields) :
        fields[i] = field /\ \A j \in 1..(i - 1) : fields[j] # field

\* The keys one field is stored under, in assignment order
FieldKeys(fields, i) ==
    (IF fields[i].id # "" THEN <<fields[i].id>> ELSE <<>>)
    \o (IF fields[i].name # "" /\ fields[i].name # fields[i].id
        THEN <<fields[i].name>> ELSE <<>>)
    \o <<IndexStr(FirstIndexOf(fields, fields[i]))>>

KeySet(fields, i) == {FieldKeys(fields, i)[n] : n \in 1..Len(FieldKeys(fields, i))}

\* field_map of resolve_profile_values: by id, by name, by index; a later
\* field overwrites an earlier one stored under the same key
BuildFieldMap(fields) ==
    LET keys == UNION {KeySet(fields, i) : i \in 1..Len(fields)}
        last(k) == CHOOSE i \in 1..Len(fields) :
                       /\ k \in KeySet(fields, i)
                       /\ \A j \in (i + 1)..Len(fields) : k \notin KeySet(fields, j)
    IN [k \in keys |-> fields[last(k)]]

\* ------------------------------------------------------------------ resolver
NoFill == [kind |-> "none", value |-> NoneV]
Fill(x) == [kind |-> "fill", value |-> x]
Raises == [kind |-> "raise", value |-> NoneV]

\* The boolean branch of resolve_profile_values
BooleanFill(field_id, current_value, field_map) ==
    IF field_id \in DOMAIN field_map
    THEN IF field_map[field_id].options # <<>>
         THEN convert_boolean_to_option(current_value, field_map[field_id].options)
         ELSE StrV(IF current_value.v = <<"True">> THEN <<"Yes">> ELSE <<"No">>)
    ELSE StrV(IF current_value.v = <<"True">> THEN <<"Yes">> ELSE <<"No">>)

\* "if current_value is not None and current_value != ''"
IsFillable(current_value) ==
    ~(current_value.t = "null") /\ ~(current_value.t = "str" /\ current_value.v = <<>>)

\* One iteration of the loop of resolve_profile_values
ResolveOne(field_id, mapping_value, profile, field_map) ==
    IF mapping_starts_with(mapping_value, T_ACK) THEN Fill(StrV(<<"Yes">>))
    \* an unhashable mapping value makes "in SPECIAL_ACTIONS" raise TypeError
    ELSE IF mapping_value.t \in {"list", "dict"} THEN Raises
    ELSE IF InWithNone(mapping_value, SPECIAL_ACTIONS) THEN NoFill
    ELSE IF \E action \in SPECIAL_ACTIONS : mapping_starts_with(mapping_value, action)
         THEN NoFill
    ELSE IF mapping_value.t # "str" \/ ~HasDot(mapping_value.v) THEN NoFill
    ELSE LET r == LookupPath(mapping_value, profile) IN
         IF ~r.ok THEN NoFill
         ELSE IF ~IsFillable(r.val) THEN NoFill
         ELSE IF r.val.t = "bool" THEN Fill(BooleanFill(field_id, r.val, field_map))
         ELSE Fill(r.val)

\* resolve_profile_values(field_mapping, profile, fields)
resolve_profile_values(field_mapping, profile, fields) ==
    LET field_map == BuildFieldMap(fields)
        res(i) == ResolveOne(field_mapping[i].id, field_mapping[i].value,
                             profile, field_map)
        filled == {i \in 1..Len(field_mapping) : res(i).kind = "fill"}
        idx(fid) == CHOOSE i \in filled : field_mapping[i].id = fid
    IN [raised |-> \E i \in 1..Len(field_mapping) : res(i).kind = "raise",
        values |-> [fid \in {field_mapping[i].id : i \in filled} |->
                        res(idx(fid)).value]]

\* --------------------------------------------------- LLM replies as JSON text
\* A reply text is a sequence of tokens: FENCE (three backquotes), "json",
\* NL (a newline), "J" (a JSON document) and "garbage"; json.loads succeeds
\* exactly on the text made of the one token "J".
FENCE == "<fence>"
NL == "<newline>"

\* str.strip()
RECURSIVE LStrip(_)
LStrip(s) == IF s # <<>> /\ Head(s) = NL THEN LStrip(Tail(s)) ELSE s
RECURSIVE RStrip(_)
RStrip(s) ==
    IF s # <<>> /\ s[Len(s)] = NL THEN RStrip(SubSeq(s, 1, Len(s) - 1)) ELSE s
Strip(s) == RStrip(LStrip(s))

EndsWithFence(s) == s # <<>> /\ s[Len(s)] = FENCE

\* text.split(NL, 1)[1] if NL in text else text
AfterFirstNewline(s) ==
    IF \E i \in 1..Len(s) : s[i] = NL
    THEN LET i == CHOOSE i \in 1..Len(s) :
                      s[i] = NL /\ \A j \in 1..(i - 1) : s[j] # NL
         IN SubSeq(s, i + 1, Len(s))
    ELSE s

\* text.rsplit(FENCE, 1)[0] for a text that ends with the fence
BeforeLastFence(s) == SubSeq(s, 1, Len(s) - 1)

\* The fence stripping of map_form_fields
MapStripFences(full_text) ==
    LET text == Strip(full_text) IN
    IF StartsWith(text, <<FENCE>>)
    THEN LET t1 == AfterFirstNewline(text)
             t2 == IF EndsWithFence(t1) THEN BeforeLastFence(t1) ELSE t1
         IN Strip(t2)
    ELSE text

\* The fence stripping of generate_application_content
ContentStripFences(full_text) ==
    LET text == Strip(full_text)
        t1 == IF StartsWith(text, <<FENCE, "json">>) THEN SubSeq(text, 3, Len(text))
              ELSE IF StartsWith(text, <<FENCE>>) THEN SubSeq(text, 2, Len(text))
              ELSE text
        t2 == IF EndsWithFence(t1) THEN BeforeLastFence(t1) ELSE t1
    IN Strip(t2)

\* json.loads(text): [ok, doc]; not ok stands for JSONDecodeError
JsonLoads(text, doc) ==
    IF text = <<"J">> THEN [ok |-> TRUE, doc |-> doc]
    ELSE [ok |-> FALSE, doc |-> NoneV]

\* A JSON object whose key order matters: entries [id, value], ids distinct
ObjV(entries) == [t |-> "obj", v |-> entries]

\* The parsing part of map_form_fields: [raised, decode_error, mapping].  A
\* JSONDecodeError yields the empty mapping; a reply that is valid JSON but no
\* object makes mapping.keys() raise AttributeError.
ParseMapping(reply) ==
    LET r == JsonLoads(MapStripFences(reply.text), reply.doc) IN
    IF ~r.ok THEN [raised |-> FALSE, decode_error |-> TRUE, mapping |-> <<>>]
    ELSE IF r.doc.t # "obj"
         THEN [raised |-> TRUE, decode_error |-> FALSE, mapping |-> <<>>]
    ELSE [raised |-> FALSE, decode_error |-> FALSE, mapping |-> r.doc.v]

\* The parsing part of generate_application_content: the value returned
ParseAnswers(reply) ==
    LET r == JsonLoads(ContentStripFences(reply.text), reply.doc) IN
    IF ~r.ok THEN ObjV(<<>>) ELSE r.doc

\* A faulty variant of AcceptAnswers: the NEEDS_HUMAN test is missing, every non-empty
\* text is stored
RECURSIVE AcceptAnswers_KeepRefusal(_, _)
AcceptAnswers_KeepRefusal(entries, acc) ==
    IF entries = <<>> THEN acc
    ELSE LET e == Head(entries) IN
         IF ~Truthy(e.value) THEN AcceptAnswers_KeepRefusal(Tail(entries), acc)
         ELSE IF e.value.t # "str" THEN acc
         ELSE AcceptAnswers_KeepRefusal(Tail(entries), (e.id :> e.value) @@ acc)

\* The loop over batch_answers.items() inside the try of match_fields:
\* the generated_content it leaves; a truthy non-string answer raises
\* AttributeError, which ends the loop and keeps what was stored before.
RECURSIVE AcceptAnswers(_, _)
AcceptAnswers(entries, acc) ==
    IF entries = <<>> THEN acc
    ELSE LET e == Head(entries) IN
         IF ~Truthy(e.value) THEN AcceptAnswers(Tail(entries), acc)
         ELSE IF e.value.t # "str" THEN acc
         ELSE IF StartsWith(e.value.v, T_NEEDS_HUMAN)
              THEN AcceptAnswers(Tail(entries), acc)
         ELSE AcceptAnswers(Tail(entries), (e.id :> e.value) @@ acc)

\* generated_content after a batch reply; a reply that is no object makes
\* batch_answers.items() raise, which the try catches
GeneratedFrom(batch_answers) ==
    IF batch_answers.t # "obj" THEN EmptyDict
    ELSE AcceptAnswers(batch_answers.v, EmptyDict)

\* ------------------------------------------------- escalation classification
MappingIds(field_mapping) == {field_mapping[i].id : i \in 1..Len(field_mapping)}

ValueOf(field_mapping, fid) ==
    field_mapping[CHOOSE i \in 1..Len(field_mapping) : field_mapping[i].id = fid].value

\* A faulty variant of NeedsHuman: a SKIP field is dropped silently instead of escalated
NeedsHuman_SilentSkip(field_id, mapping_value, fv, fl, gc) ==
    IF mapping_starts_with(mapping_value, T_SKIP) THEN FALSE
    ELSE IF \/ mapping_value.t = "null"
            \/ mapping_starts_with(mapping_value, T_NEEDS_HUMAN) THEN TRUE
    ELSE IF mapping_starts_with(mapping_value, T_RESUME) /\ "resume" \notin DOMAIN fl
         THEN TRUE
    ELSE IF IsContentAction(mapping_value) /\ field_id \notin DOMAIN gc THEN TRUE
    ELSE IF mapping_starts_with(mapping_value, T_ACK) THEN FALSE
    ELSE IF field_id \notin DOMAIN fv
         THEN ~\E action \in AUTO_FILLED_ACTIONS :
                   mapping_starts_with(mapping_value, action)
    ELSE FALSE

\* The if/elif chain of step 5 for one mapping entry
NeedsHuman(field_id, mapping_value, field_values_, files_, generated_content_) ==
    IF InWithNone(mapping_value, ALWAYS_HUMAN_ACTIONS) THEN TRUE
    ELSE IF \/ mapping_starts_with(mapping_value, T_NEEDS_HUMAN)
            \/ mapping_starts_with(mapping_value, T_SKIP) THEN TRUE
    ELSE IF /\ mapping_starts_with(mapping_value, T_RESUME)
            /\ "resume" \notin DOMAIN files_ THEN TRUE
    ELSE IF /\ IsContentAction(mapping_value)
            /\ field_id \notin DOMAIN generated_content_ THEN TRUE
    ELSE IF mapping_starts_with(mapping_value, T_ACK) THEN FALSE
    ELSE IF /\ field_id \notin DOMAIN field_values_
            /\ ~(mapping_value.t = "str" /\ mapping_value.v \in AUTO_FILLED_ACTIONS)
            /\ ~InWithNone(mapping_value, ALWAYS_HUMAN_ACTIONS)
         THEN ~\E action \in AUTO_FILLED_ACTIONS :
                   mapping_starts_with(mapping_value, action)
    ELSE FALSE

\* A faulty variant of Classify: an id that already has a value from the resolver or
\* the generator is not escalated
Classify_SkipFilled(fm, fv, fl, gc) ==
    LET sel == SelectSeq(fm, LAMBDA e : /\ NeedsHuman(e.id, e.value, fv, fl, gc)
                                        /\ e.id \notin DOMAIN fv
                                        /\ e.id \notin DOMAIN gc)
    IN [i \in 1..Len(sel) |-> sel[i].id]

\* needs_human: the escalated ids in the iteration order of field_mapping
RECURSIVE Classify(_, _, _, _)
Classify(field_mapping, field_values_, files_, generated_content_) ==
    IF field_mapping = <<>> THEN <<>>
    ELSE LET e == Head(field_mapping)
             rest == Classify(Tail(field_mapping), field_values_, files_,
                              generated_content_)
         IN IF NeedsHuman(e.id, e.value, field_values_, files_, generated_content_)
            THEN <<e.id>> \o rest ELSE rest

\* A faulty variant of MergeFill: the profile value wins on a collision
MergeFill_ProfileWins(field_values_, generated_content_) == field_values_ @@ generated_content_

\* fill_values = {}; update(field_values); update(generated_content)
MergeFill(field_values_, generated_content_) == generated_content_ @@ field_values_

\* ---------------------------------------------------------- bounded inputs
Ids == <<"f1", "f2", "f3", "f4">>

\* Profiles that load_profile may return
Personal ==
    (K("first_name") :> StrV(<<"John">>))
    @@ (K("email") :> StrV(<<"john@example", ".", "com">>))
    @@ (K("authorized") :> BoolV(TRUE))
    @@ (K("sponsorship") :> BoolV(FALSE))
    @@ (K("years") :> NumV("0"))
    @@ (K("middle_name") :> StrV(<<>>))
    @@ (K("phone") :> NoneV)
    @@ (K("address") :> DictV(K("city") :> StrV(<<"Berlin">>)))

CustomAnswers ==
    (<<"How did you hear about us?">> :> StrV(<<"LinkedIn">>))
    @@ (<<"portfolio", ".", "url">> :> StrV(<<"site">>))

ProfileFull ==
    DictV((K("personal") :> DictV(Personal))
          @@ (K("custom_answers") :> DictV(CustomAnswers)))

ProfileBare == DictV(K("personal") :> DictV(K("first_name") :> StrV(<<"John">>)))

Profiles == {ProfileFull, ProfileBare}

Path2(a, b) == StrV(<<a, ".", b>>)
Path3(a, b, c) == StrV(<<a, ".", b, ".", c>>)
Suffixed(tag) == StrV(tag \o <<":tone=formal">>)

Absent == [t |-> "absent", v |-> <<>>]

TagValues ==
    {StrV(T_RESUME), StrV(T_CL_FULL), StrV(T_CL_BODY), StrV(T_CL_WHY),
     StrV(T_GENERATE), StrV(T_NEEDS_HUMAN), StrV(T_ACK), StrV(T_SKIP),
     StrV(T_UNKNOWN)}

SuffixedValues ==
    {Suffixed(T_RESUME), Suffixed(T_CL_WHY), Suffixed(T_GENERATE),
     Suffixed(T_NEEDS_HUMAN), Suffixed(T_ACK), Suffixed(T_SKIP),
     StrV(T_GENERATE \o <<":v1", ".", "2">>), StrV(T_UNKNOWN \o <<":", ".", "x">>)}

PathValues ==
    {Path2("personal", "email"), Path2("personal", "missing"),
     Path3("personal", "email", "domain"), Path2("missing", "email"),
     Path3("personal", "address", "city"),
     Path2("personal", "authorized"), Path2("personal", "sponsorship"),
     Path2("personal", "years"), Path2("personal", "middle_name"),
     Path2("personal", "phone"),
     Path2("custom_answers", "How did you hear about us?"),
     Path3("custom_answers", "portfolio", "url"),
     Path2("custom_answers", "missing")}

\* What the mapping generator may say about the first field id
RichValues ==
    {Absent, NoneV, NumV("5"), ListV, StrV(<<"personal">>)}
    \cup TagValues \cup SuffixedValues \cup PathValues

\* What it may say about each further field id
CoreValues ==
    {Absent, StrV(T_CL_WHY), StrV(T_GENERATE), StrV(T_RESUME),
     StrV(T_NEEDS_HUMAN), Path2("personal", "email")}

\* ... and about the ids after the second
FewValues == {Absent, StrV(T_CL_WHY), StrV(T_SKIP)}

ValuesFor(i) == IF i = 1 THEN RichValues ELSE IF i = 2 THEN CoreValues ELSE FewValues

\* The entries of a JSON object, in id order, from a choice per id
RECURSIVE EntriesOf(_, _)
EntriesOf(choice, i) ==
    IF i > Len(choice) THEN <<>>
    ELSE (IF choice[i] = Absent THEN <<>>
          ELSE <<[id |-> Ids[i], value |-> choice[i]]>>)
         \o EntriesOf(choice, i + 1)

\* The scenario of the specification's testable properties
ScenarioMapping ==
    <<[id |-> "f1", value |-> Path2("personal", "email")],
      [id |-> "f2", value |-> StrV(T_RESUME)],
      [id |-> "f3", value |-> StrV(T_CL_WHY)],
      [id |-> "f4", value |-> StrV(T_SKIP)]>>

MappingDocs ==
    {ObjV(EntriesOf(c, 1)) :
        c \in {c \in [1..MaxFields -> RichValues \cup CoreValues] :
                  \A i \in 1..MaxFields : c[i] \in ValuesFor(i)}}
    \cup {ObjV(ScenarioMapping), ListV}

ReplyTexts ==
    {<<"J">>, <<FENCE, "json", NL, "J", NL, FENCE>>, <<FENCE, NL, "J", NL, FENCE>>,
     <<FENCE, "J", FENCE>>, <<"garbage">>, <<>>}

\* Every document as bare JSON, and the scenario's in every text shape
MappingReplies ==
    [text : {<<"J">>}, doc : MappingDocs]
    \cup [text : ReplyTexts, doc : {ObjV(ScenarioMapping)}]

\* Answers of the content generator
GeneratedText == StrV(<<"Generated text">>)

RichAnswers ==
    {Absent, GeneratedText, StrV(T_NEEDS_HUMAN),
     StrV(T_NEEDS_HUMAN \o <<": no data">>), StrV(<<>>), NumV("5")}

CoreAnswers == {Absent, GeneratedText, NumV("5")}

FewAnswers == {Absent, GeneratedText}

AnswersFor(i) == IF i = 1 THEN RichAnswers ELSE IF i = 2 THEN CoreAnswers ELSE FewAnswers

ScenarioAnswers == <<[id |-> "f3", value |-> GeneratedText]>>

ContentDocs ==
    {ObjV(EntriesOf(c, 1)) :
        c \in {c \in [1..MaxFields -> RichAnswers] :
                  \A i \in 1..MaxFields : c[i] \in AnswersFor(i)}}
    \cup {ObjV(ScenarioAnswers), ListV}

ContentReplies ==
    [text : {<<"J">>}, doc : ContentDocs]
    \cup [text : ReplyTexts, doc : {ObjV(ScenarioAnswers)}]

\* Option lists of the request's fields
Opt(value, text) == [value |-> value, text |-> text]

OptionLists ==
    {<<>>,
     <<Opt("yes", "Yes"), Opt("no", "No")>>,
     <<Opt("1", "Affirmative"), Opt("0", "Negative")>>,
     <<Opt("t", "True"), Opt("f", "False")>>,
     <<Opt("true", "True"), Opt("Y", "YES"), Opt("false", "False"), Opt("N", "No")>>}

Field(id, name, options) == [id |-> id, name |-> name, options |-> options]

ScenarioFields ==
    <<Field("f1", "f1", <<>>), Field("f2", "f2", <<>>), Field("f3", "f3", <<>>),
      Field("f4", "f4", <<>>)>>

\* The field lists a request may carry
FieldLists ==
    {<<>>, ScenarioFields,
     <<Field("f2", "f2", <<>>)>>,
     <<Field("x1", "f1", <<Opt("yes", "Yes"), Opt("no", "No")>>)>>}
    \cup {<<Field("f1", "f1", o)>> : o \in OptionLists}
    \cup {<<Field("f1", "f1", <<Opt("yes", "Yes"), Opt("no", "No")>>),
             Field("f2", "f2", <<>>)>>}

\* request.get_json(): nothing, an empty object, or a request
NoData == [kind |-> "none", fields |-> <<>>, company_name |-> "", role_title |-> ""]
EmptyData == [kind |-> "empty", fields |-> <<>>, company_name |-> "", role_title |-> ""]

Requests ==
    {NoData, EmptyData}
    \cup [kind : {"json"}, fields : FieldLists,
          company_name : {"", "Acme"}, role_title : {"", "Engineer"}]

\* run_pipeline: raises, or returns body_text, paragraph and docx_path
CoverOutcomes ==
    {[raised |-> TRUE, body_text |-> "", paragraph |-> ""]}
    \cup [raised : {FALSE}, body_text : {"", "Dear team"}, paragraph : {"", "Why Acme"}]

\* ------------------------------------------------- match_fields, the handler
VARIABLES
    pc,                 \* position of the request inside match_fields
    data,               \* request.get_json()
    profile,            \* load_profile()
    field_mapping,      \* map_form_fields(...), entries in dict order
    field_values,       \* resolve_profile_values(...)
    files,              \* {"resume": path, "cover_letter": path}
    cover_letter_text,
    why_paragraph,
    generated_content,
    needs_human,
    fill_values,
    response,           \* [status, code] of the JSON response
    calls,              \* how often each collaborator was invoked
    failed,             \* the steps that failed in this request: "load",
                        \* "mapping" (map_form_fields raised), "mapping_parse"
                        \* (its reply was no JSON), "resolve", "resume",
                        \* "cover_letter", "content" (the call raised),
                        \* "content_parse" (its reply was no JSON)
    batch_answers,      \* what generate_application_content returned
    trace               \* the steps of the request in the order they ran

handler_vars ==
    <<pc, data, profile, field_mapping, field_values, files, cover_letter_text,
      why_paragraph, generated_content, needs_human, fill_values, response,
      calls, failed, batch_answers, trace>>

\* The process-wide logger and tracker of server.py, shared by the threads
\* that serve concurrent requests
VARIABLES
    lpc,                \* position of each request thread
    cur,                \* the log entry a thread is writing inside PrettyLogger.log
    disk,               \* the content of each log file: the writes that reached it
    tracker_calls,      \* tracker.calls
    closed              \* the entries whose file object was closed

log_vars == <<lpc, cur, disk, tracker_calls, closed>>

\* One execution of call_with_retry of generate_cover_letter.py
VARIABLES
    r_pc,               \* position inside call_with_retry
    r_max,              \* max_retries
    r_attempt,          \* the loop variable attempt
    r_calls,            \* how often api_call_func was invoked
    r_sleeps,           \* the arguments of time.sleep, in order
    r_error,            \* the exception of the last invocation
    r_out               \* how the function ended: what it returned or raised

retry_vars == <<r_pc, r_max, r_attempt, r_calls, r_sleeps, r_error, r_out>>

\* The research cache of utils/cache.py and its user get_company_context
VARIABLES
    c_files,            \* the cache directory: file name -> file content
    c_now,              \* datetime.now(), in days
    c_sets,             \* per company name, the last set call made for it
    c_got,              \* the last get or get_company_context and its result
    c_research,         \* research calls made so far (search + synthesis)
    c_ops               \* calls and clock steps so far

cache_vars == <<c_files, c_now, c_sets, c_got, c_research, c_ops>>

vars == <<handler_vars, log_vars, retry_vars, cache_vars>>

\* ------------------------------------------- PrettyLogger and TokenTracker
\* The threads that serve two concurrent requests
Threads == {1, 2}

LogFiles == {"server.log", "token_usage.log"}

\* The size of the file object's buffer and the most keys of a logged dict
BufferSize == 2
MaxKeys == 2

\* The size of one f.write in the unit of BufferSize; 0 is a short line
WriteSizes == 0..BufferSize

\* The writes of one entry: the header, one write per key, the closing newline
EntrySizes(body) == <<0>> \o body \o <<0>>

\* The bodies a logged request may have
BodySizes == UNION {[1..n -> WriteSizes] : n \in 0..MaxKeys}

\* log_data of TokenTracker.log_call: six short keys
ApiCallSizes == EntrySizes([i \in 1..6 |-> 0])

NoEntry ==
    [file |-> "", label |-> "", sizes |-> <<>>, next |-> 1, pending |-> <<>>, used |-> 0]

NewEntry(file, label, sizes) ==
    [file |-> file, label |-> label, sizes |-> sizes, next |-> 1, pending |-> <<>>,
     used |-> 0]

LogStart ==
    /\ lpc = [t \in Threads |-> "request"]
    /\ cur = [t \in Threads |-> NoEntry]
    /\ disk = [f \in LogFiles |-> <<>>]
    /\ tracker_calls = <<>>
    /\ closed = {}

\* logger.log("REQUEST", data): the file is opened for appending
LogRequest(t) ==
    /\ lpc[t] = "request"
    /\ \E body \in BodySizes :
          cur' = [cur EXCEPT ![t] = NewEntry("server.log", "REQUEST", EntrySizes(body))]
    /\ lpc' = [lpc EXCEPT ![t] = "writing"]
    /\ UNCHANGED <<disk, tracker_calls, closed, handler_vars, retry_vars, cache_vars>>

\* One f.write inside the with block.  The text goes to the buffer of the
\* thread's own file object; the buffer is written to the file, in one
\* append, before a text that does not fit and as soon as it is full.
LogWrite(t) ==
    /\ lpc[t] = "writing"
    /\ cur[t].next <= Len(cur[t].sizes)
    /\ LET e == cur[t]
           size == e.sizes[e.next]
           line == [thread |-> t, label |-> e.label, part |-> e.next]
           early == e.used + size > BufferSize
           kept == IF early THEN <<line>> ELSE Append(e.pending, line)
           used == IF early THEN size ELSE e.used + size
           full == used >= BufferSize
           out == (IF early THEN e.pending ELSE <<>>) \o (IF full THEN kept ELSE <<>>)
       IN /\ disk' = [disk EXCEPT ![e.file] = @ \o out]
          /\ cur' = [cur EXCEPT ![t] =
                        [e EXCEPT !.next = @ + 1,
                                  !.pending = IF full THEN <<>> ELSE kept,
                                  !.used = IF full THEN 0 ELSE used]]
    /\ UNCHANGED <<lpc, tracker_calls, closed, handler_vars, retry_vars, cache_vars>>

\* The end of the with block: the file object is closed, the rest of the
\* buffer is appended to the file
LogClose(t) ==
    /\ lpc[t] = "writing"
    /\ cur[t].next > Len(cur[t].sizes)
    /\ disk' = [disk EXCEPT ![cur[t].file] = @ \o cur[t].pending]
    /\ closed' = closed \cup {[thread |-> t, label |-> cur[t].label,
                                file |-> cur[t].file, parts |-> Len(cur[t].sizes)]}
    /\ lpc' = [lpc EXCEPT ![t] = IF cur[t].label = "REQUEST" THEN "api_call"
                                                                ELSE "finished"]
    /\ cur' = [cur EXCEPT ![t] = NoEntry]
    /\ UNCHANGED <<tracker_calls, handler_vars, retry_vars, cache_vars>>

\* tracker.log_call: self.calls.append(call_record), then self.logger.log of
\* the API_CALL entry to the tracker's own log file
TrackerLogCall(t) ==
    /\ lpc[t] = "api_call"
    /\ tracker_calls' = Append(tracker_calls, t)
    /\ cur' = [cur EXCEPT ![t] = NewEntry("token_usage.log", "API_CALL", ApiCallSizes)]
    /\ lpc' = [lpc EXCEPT ![t] = "writing"]
    /\ UNCHANGED <<disk, closed, handler_vars, retry_vars, cache_vars>>

NoResponse == [status |-> "none", code |-> 0, keys |-> {}]

\* jsonify(...) of the handler: the complete answer of lines 911-917, or the
\* error answers of lines 670-673 and 924-937
Respond(status, code) ==
    [status |-> status, code |-> code,
     keys |-> IF status = "complete"
              THEN {"status", "field_mappings", "fill_values", "files", "needs_human"}
              ELSE {"error", "status"}]

\* ----------------------------------------------------------- call_with_retry
MaxRetries == 3

\* The default of the parameter wait_seconds
WAIT_SECONDS == 90

\* The header anthropic-ratelimit-input-tokens-reset of a RateLimitError:
\* none, no ISO date, a time that has passed, or a time some seconds ahead
ResetHeaders ==
    {[kind |-> "absent", ahead |-> 0], [kind |-> "garbage", ahead |-> 0],
     [kind |-> "past", ahead |-> 0]}
    \cup [kind : {"future"}, ahead : {0, 30}]

\* What one invocation of api_call_func does
CallOutcomes ==
    {[kind |-> "return", header |-> [kind |-> "absent", ahead |-> 0]],
     [kind |-> "other_error", header |-> [kind |-> "absent", ahead |-> 0]]}
    \cup [kind : {"rate_limit"}, header : ResetHeaders]

\* actual_wait_seconds: int(seconds_until_reset) when the header names a
\* time ahead, else wait_seconds
ActualWait(header) ==
    IF header.kind = "future" THEN header.ahead ELSE WAIT_SECONDS

NoOutcome == [kind |-> "running", attempt |-> 0]

RetryIdle ==
    /\ r_pc = "idle"
    /\ r_max = 0
    /\ r_attempt = 0
    /\ r_calls = 0
    /\ r_sleeps = <<>>
    /\ r_error = [kind |-> "none", header |-> [kind |-> "absent", ahead |-> 0]]
    /\ r_out = NoOutcome

\* "for attempt in range(max_retries)": the next iteration, or the end of
\* the loop, after which the function returns None
RetryLoop ==
    /\ r_pc = "loop"
    /\ IF r_attempt < r_max
       THEN /\ r_pc' = "call"
            /\ UNCHANGED r_out
       ELSE /\ r_pc' = "done"
            /\ r_out' = [kind |-> "return_none", attempt |-> r_attempt]
    /\ UNCHANGED <<r_max, r_attempt, r_calls, r_sleeps, r_error, handler_vars, log_vars, cache_vars>>

\* "return api_call_func()": the result is returned, a RateLimitError is
\* handled, any other exception leaves the function
RetryCall ==
    /\ r_pc = "call"
    /\ r_calls' = r_calls + 1
    /\ \E o \in CallOutcomes :
          /\ r_error' = [kind |-> IF o.kind = "return" THEN "none" ELSE o.kind,
                         header |-> o.header]
          /\ IF o.kind = "rate_limit"
             THEN r_pc' = "handle" /\ UNCHANGED r_out
             ELSE /\ r_pc' = "done"
                  /\ r_out' = [kind |-> IF o.kind = "return" THEN "return" ELSE "raise_other",
                               attempt |-> r_attempt]
    /\ UNCHANGED <<r_max, r_attempt, r_sleeps, handler_vars, log_vars, cache_vars>>

\* The except clause: sleep and go on when attempts remain, else re-raise
RetryHandle ==
    /\ r_pc = "handle"
    /\ IF r_attempt < r_max - 1
       THEN /\ r_sleeps' = Append(r_sleeps, ActualWait(r_error.header))
            /\ r_attempt' = r_attempt + 1
            /\ r_pc' = "loop"
            /\ UNCHANGED r_out
       ELSE /\ r_pc' = "done"
            /\ r_out' = [kind |-> "raise_rate_limit", attempt |-> r_attempt]
            /\ UNCHANGED <<r_sleeps, r_attempt>>
    /\ UNCHANGED <<r_max, r_calls, r_error, handler_vars, log_vars, cache_vars>>

\* ------------------------------------------------------------ ResearchCache
MaxOps == 4
MaxClock == 8

\* The default of the parameter max_age_days
MAX_AGE_DAYS == 7

\* Company names, as sequences of characters
CompanyNames == {<<"A", "&", "B">>, <<"a", "-", "b">>, <<"a", "b">>}

\* str.lower and str.isalnum on the characters in use
LowerChar(c) == IF c = "A" THEN "a" ELSE IF c = "B" THEN "b" ELSE c

IsAlnum(c) == c \in {"a", "b", "A", "B"}

\* _get_path: lower case, every other character replaced by "_"
SafeName(company_name) ==
    [i \in 1..Len(company_name) |->
        IF IsAlnum(LowerChar(company_name[i])) THEN LowerChar(company_name[i]) ELSE "_"]

CachePaths == {SafeName(n) : n \in CompanyNames}

\* The dicts that are stored: two research results and the empty dict
EMPTY_DICT == "{}"

Contents == {"facts1", "facts2", EMPTY_DICT}

NONE == "None"

NoFile == [exists |-> FALSE, timestamp |-> 0, company_name |-> <<>>, content |-> NONE]

NoSet == [made |-> FALSE, at |-> 0, content |-> NONE]

\* ResearchCache.get: None without a file or when the file is older than
\* max_age, else the content of the file
CacheGetResult(company_name) ==
    LET entry == c_files[SafeName(company_name)]
    IN  IF ~entry.exists THEN NONE
        ELSE IF c_now - entry.timestamp > MAX_AGE_DAYS THEN NONE
        ELSE entry.content

\* ResearchCache.set: the file of the name is overwritten
CacheWrite(company_name, content) ==
    [c_files EXCEPT ![SafeName(company_name)] =
        [exists |-> TRUE, timestamp |-> c_now,
         company_name |-> company_name, content |-> content]]

CacheStart ==
    /\ c_files = [p \in CachePaths |-> NoFile]
    /\ c_now = 0
    /\ c_sets = [n \in CompanyNames |-> NoSet]
    /\ c_got = [op |-> "none", name |-> <<>>, result |-> NONE]
    /\ c_research = 0
    /\ c_ops = 0

CacheSet(company_name, content) ==
    /\ c_ops < MaxOps
    /\ c_ops' = c_ops + 1
    /\ c_files' = CacheWrite(company_name, content)
    /\ c_sets' = [c_sets EXCEPT ![company_name] =
                     [made |-> TRUE, at |-> c_now, content |-> content]]
    /\ UNCHANGED <<c_now, c_got, c_research, handler_vars, log_vars, retry_vars>>

CacheGet(company_name) ==
    /\ c_ops < MaxOps
    /\ c_ops' = c_ops + 1
    /\ c_got' = [op |-> "get", name |-> company_name,
                 result |-> CacheGetResult(company_name)]
    /\ UNCHANGED <<c_files, c_now, c_sets, c_research, handler_vars, log_vars, retry_vars>>

\* get_company_context: "if cached: return cached", else the two research
\* calls, set and return of the result
GetCompanyContext(company_name) ==
    /\ c_ops < MaxOps
    /\ c_ops' = c_ops + 1
    /\ LET cached == CacheGetResult(company_name)
       IN  IF cached \notin {NONE, EMPTY_DICT}
           THEN /\ c_got' = [op |-> "context", name |-> company_name, result |-> cached]
                /\ UNCHANGED <<c_files, c_sets, c_research>>
           ELSE \E result \in Contents :
                  /\ c_research' = c_research + 1
                  /\ c_files' = CacheWrite(company_name, result)
                  /\ c_sets' = [c_sets EXCEPT ![company_name] =
                                   [made |-> TRUE, at |-> c_now, content |-> result]]
                  /\ c_got' = [op |-> "context", name |-> company_name, result |-> result]
    /\ UNCHANGED <<c_now, handler_vars, log_vars, retry_vars>>

\* Time passes between calls
Tick ==
    /\ \E d \in {1, MAX_AGE_DAYS} :
          /\ c_now + d <= MaxClock
          /\ c_now' = c_now + d
    /\ c_ops < MaxOps
    /\ c_ops' = c_ops + 1
    /\ UNCHANGED <<c_files, c_sets, c_got, c_research, handler_vars, log_vars, retry_vars>>

ZeroCalls ==
    [load |-> 0, mapping |-> 0, resume |-> 0, cover_letter |-> 0, content |-> 0]

Called(what) == [calls EXCEPT ![what] = @ + 1]

\* A faulty variant of Invoke: the collaborator is invoked once for every field
\* of the mapping
Invoke_PerField(what) == trace \o [i \in 1..Len(field_mapping) |-> what]

\* One invocation of a collaborator, recorded in the order of execution
Invoke(what) == Append(trace, what)

HandlerStart ==
    /\ pc = "start"
    /\ data \in Requests
    /\ profile = NoneV
    /\ field_mapping = <<>>
    /\ field_values = EmptyDict
    /\ files = [k \in {} |-> ""]
    /\ cover_letter_text = ""
    /\ why_paragraph = ""
    /\ generated_content = EmptyDict
    /\ needs_human = <<>>
    /\ fill_values = EmptyDict
    /\ response = NoResponse
    /\ calls = ZeroCalls
    /\ failed = {}
    /\ batch_answers = Absent
    /\ trace = <<>>

Init == HandlerStart /\ LogStart /\ RetryIdle /\ CacheStart

\* A faulty variant of IsFalsy: "if data is None", which lets an empty body through
IsFalsy_NoneOnly(d) == d.kind = "none"

\* "if not data": the 400 answer of lines 669-673
IsFalsy(d) == d.kind \in {"none", "empty"}

\* The except clauses of match_fields: status error, HTTP 500
Abort ==
    /\ pc' = "done"
    /\ response' = Respond("error", 500)

\* Lines 663-707: read the body, reject a missing or empty one
ReceiveRequest ==
    /\ pc = "start"
    /\ IF IsFalsy(data)
       THEN /\ pc' = "done"
            /\ response' = Respond("error", 400)
       ELSE /\ pc' = "load"
            /\ UNCHANGED response
    /\ UNCHANGED <<data, profile, field_mapping, field_values, files,
                   cover_letter_text, why_paragraph, generated_content,
                   needs_human, fill_values, calls, failed, batch_answers, trace>>
    /\ UNCHANGED <<log_vars, retry_vars, cache_vars>>

\* Lines 709-711: load_config() and load_profile(); either may raise
\* FileNotFoundError, which the handler answers with status error
LoadConfigAndProfile ==
    /\ pc = "load"
    /\ calls' = Called("load")
    /\ \/ /\ Abort
          /\ failed' = failed \cup {"load"}
          /\ UNCHANGED profile
       \/ /\ \E p \in Profiles : profile' = p
          /\ pc' = "map"
          /\ UNCHANGED <<response, failed>>
    /\ UNCHANGED <<data, field_mapping, field_values, files, cover_letter_text,
                   why_paragraph, generated_content, needs_human, fill_values,
                   batch_answers, trace>>
    /\ UNCHANGED <<log_vars, retry_vars, cache_vars>>

\* Lines 713-723: map_form_fields, then resolve_profile_values.  Neither call
\* is inside a try of its own: an exception of the API call, of the handling
\* of a reply that is no JSON object, or of the resolver reaches the handler's
\* "except Exception".
MapFormFields ==
    /\ pc = "map"
    /\ calls' = Called("mapping")
    /\ \/ /\ Abort
          /\ failed' = failed \cup {"mapping"}
          /\ trace' = Invoke("mapping")
          /\ UNCHANGED <<field_mapping, field_values>>
       \/ \E reply \in MappingReplies :
            LET parsed == ParseMapping(reply)
                resolved == resolve_profile_values(parsed.mapping, profile, data.fields)
            IN IF parsed.raised
               THEN /\ Abort
                    /\ failed' = failed \cup {"mapping"}
                    /\ trace' = Invoke("mapping")
                    /\ UNCHANGED <<field_mapping, field_values>>
               ELSE IF resolved.raised
               THEN /\ Abort
                    /\ field_mapping' = parsed.mapping
                    /\ failed' = failed \cup {"resolve"}
                    /\ trace' = Append(Invoke("mapping"), "resolve")
                    /\ UNCHANGED field_values
               ELSE /\ field_mapping' = parsed.mapping
                    /\ field_values' = resolved.values
                    /\ trace' = Append(Invoke("mapping"), "resolve")
                    /\ pc' = "resume"
                    /\ failed' = IF parsed.decode_error
                                 THEN failed \cup {"mapping_parse"} ELSE failed
                    /\ UNCHANGED response
    /\ UNCHANGED <<data, profile, files, cover_letter_text, why_paragraph,
                   generated_content, needs_human, fill_values, batch_answers>>
    /\ UNCHANGED <<log_vars, retry_vars, cache_vars>>

resume_fields(mapping) ==
    {i \in 1..Len(mapping) : mapping_starts_with(mapping[i].value, T_RESUME)}

\* A faulty variant of cover_letter_fields: GENERATE_ANSWER fields count as well
cover_letter_fields_AnyContent(mapping) ==
    {i \in 1..Len(mapping) : IsContentAction(mapping[i].value)}

cover_letter_fields(mapping) ==
    {i \in 1..Len(mapping) : IsCoverLetterAction(mapping[i].value)}

content_fields(mapping) ==
    {i \in 1..Len(mapping) : IsContentAction(mapping[i].value)}

\* A faulty variant of ResumeLookup: the resume is looked up in every request
ResumeLookup_Always ==
    /\ pc = "resume"
    /\ pc' = "cover"
    /\ calls' = Called("resume")
    /\ trace' = Invoke("resume")
    /\ \/ /\ files' = ("resume" :> "resume.pdf")
          /\ UNCHANGED failed
       \/ /\ files' = files
          /\ failed' = failed \cup {"resume"}
    /\ UNCHANGED <<data, profile, field_mapping, field_values, cover_letter_text,
                   why_paragraph, generated_content, needs_human, fill_values,
                   response, batch_answers>>
    /\ UNCHANGED <<log_vars, retry_vars, cache_vars>>

\* Lines 725-737 with get_resume_path (lines 78-104), which returns the path
\* of the first resume found or None, also when the lookup itself fails
ResumeLookup ==
    /\ pc = "resume"
    /\ pc' = "cover"
    /\ IF resume_fields(field_mapping) # {}
       THEN /\ calls' = Called("resume")
            /\ trace' = Invoke("resume")
            /\ \/ /\ files' = ("resume" :> "resume.pdf")
                  /\ UNCHANGED failed
               \/ /\ files' = files
                  /\ failed' = failed \cup {"resume"}
       ELSE UNCHANGED <<calls, files, failed, trace>>
    /\ UNCHANGED <<data, profile, field_mapping, field_values, cover_letter_text,
                   why_paragraph, generated_content, needs_human, fill_values,
                   response, batch_answers>>
    /\ UNCHANGED <<log_vars, retry_vars, cache_vars>>

\* A faulty variant of CoverLetter: one of company_name and role_title is enough
CoverLetter_EitherDetail ==
    /\ pc = "cover"
    /\ pc' = "content"
    /\ IF /\ cover_letter_fields(field_mapping) # {}
          /\ data.company_name # "" \/ data.role_title # ""
       THEN /\ calls' = Called("cover_letter")
            /\ trace' = Invoke("cover_letter")
            /\ \E result \in CoverOutcomes :
                 IF result.raised
                 THEN /\ failed' = failed \cup {"cover_letter"}
                      /\ UNCHANGED <<cover_letter_text, why_paragraph, files>>
                 ELSE /\ cover_letter_text' = result.body_text
                      /\ why_paragraph' = result.paragraph
                      /\ files' = ("cover_letter" :> "cover.docx") @@ files
                      /\ UNCHANGED failed
       ELSE UNCHANGED <<calls, cover_letter_text, why_paragraph, files, failed, trace>>
    /\ UNCHANGED <<data, profile, field_mapping, field_values, generated_content,
                   needs_human, fill_values, response, batch_answers>>
    /\ UNCHANGED <<log_vars, retry_vars, cache_vars>>

\* Lines 743-786: run_pipeline, once, when a cover-letter field exists and
\* company_name and role_title are both given; its exceptions are caught
CoverLetter ==
    /\ pc = "cover"
    /\ pc' = "content"
    /\ IF /\ cover_letter_fields(field_mapping) # {}
          /\ data.company_name # "" /\ data.role_title # ""
       THEN /\ calls' = Called("cover_letter")
            /\ trace' = Invoke("cover_letter")
            /\ \E result \in CoverOutcomes :
                 IF result.raised
                 THEN /\ failed' = failed \cup {"cover_letter"}
                      /\ UNCHANGED <<cover_letter_text, why_paragraph, files>>
                 ELSE /\ cover_letter_text' = result.body_text
                      /\ why_paragraph' = result.paragraph
                      /\ files' = ("cover_letter" :> "cover.docx") @@ files
                      /\ UNCHANGED failed
       ELSE UNCHANGED <<calls, cover_letter_text, why_paragraph, files, failed, trace>>
    /\ UNCHANGED <<data, profile, field_mapping, field_values, generated_content,
                   needs_human, fill_values, response, batch_answers>>
    /\ UNCHANGED <<log_vars, retry_vars, cache_vars>>

\* Whether json.loads of the content generator's reply raises JSONDecodeError
ContentDecodeError(reply) ==
    ~JsonLoads(ContentStripFences(reply.text), reply.doc).ok

\* Lines 867-922: classify, merge and answer with status complete
Finish(answers, tr) ==
    LET generated == IF answers = Absent THEN EmptyDict ELSE GeneratedFrom(answers)
    IN /\ batch_answers' = answers
       /\ generated_content' = generated
       /\ needs_human' = Classify(field_mapping, field_values, files, generated)
       /\ fill_values' = MergeFill(field_values, generated)
       /\ response' = Respond("complete", 200)
       /\ trace' = tr \o <<"classify", "merge">>
       /\ pc' = "done"

\* A faulty variant of ContentAndRespond: the batch call is made outside the try, so an
\* exception of the content generator reaches the handler's except clause
ContentAndRespond_Uncaught ==
    /\ pc = "content"
    /\ IF /\ content_fields(field_mapping) # {}
          /\ (cover_letter_text # "" \/ why_paragraph # "")
       THEN /\ calls' = Called("content")
            /\ \/ /\ Abort
                  /\ failed' = failed \cup {"content"}
                  /\ trace' = Invoke("content")
                  /\ UNCHANGED <<generated_content, needs_human, fill_values,
                                 batch_answers>>
               \/ \E reply \in ContentReplies :
                    /\ Finish(ParseAnswers(reply), Invoke("content"))
                    /\ failed' = IF ContentDecodeError(reply)
                                 THEN failed \cup {"content_parse"} ELSE failed
       ELSE /\ Finish(Absent, trace)
            /\ UNCHANGED <<calls, failed>>
    /\ UNCHANGED <<data, profile, field_mapping, field_values, files,
                   cover_letter_text, why_paragraph>>
    /\ UNCHANGED <<log_vars, retry_vars, cache_vars>>

\* A faulty variant of ContentAndRespond: the batch is requested whenever it is not
\* empty, also without any cover-letter text to ground it
ContentAndRespond_Ungrounded ==
    /\ pc = "content"
    /\ IF content_fields(field_mapping) # {}
       THEN /\ calls' = Called("content")
            /\ \/ /\ Finish(Absent, Invoke("content"))
                  /\ failed' = failed \cup {"content"}
               \/ \E reply \in ContentReplies :
                    /\ Finish(ParseAnswers(reply), Invoke("content"))
                    /\ failed' = IF ContentDecodeError(reply)
                                 THEN failed \cup {"content_parse"} ELSE failed
       ELSE /\ Finish(Absent, trace)
            /\ UNCHANGED <<calls, failed>>
    /\ UNCHANGED <<data, profile, field_mapping, field_values, files,
                   cover_letter_text, why_paragraph>>
    /\ UNCHANGED <<log_vars, retry_vars, cache_vars>>

\* Lines 793-922: the content batch (generate_application_content, at most
\* once, its exceptions caught), then classification, merge and response
ContentAndRespond ==
    /\ pc = "content"
    /\ IF /\ content_fields(field_mapping) # {}
          /\ (cover_letter_text # "" \/ why_paragraph # "")
       THEN /\ calls' = Called("content")
            /\ \/ /\ Finish(Absent, Invoke("content"))
                  /\ failed' = failed \cup {"content"}
               \/ \E reply \in ContentReplies :
                    /\ Finish(ParseAnswers(reply), Invoke("content"))
                    /\ failed' = IF ContentDecodeError(reply)
                                 THEN failed \cup {"content_parse"} ELSE failed
       ELSE /\ Finish(Absent, trace)
            /\ UNCHANGED <<calls, failed>>
    /\ UNCHANGED <<data, profile, field_mapping, field_values, files,
                   cover_letter_text, why_paragraph>>
    /\ UNCHANGED <<log_vars, retry_vars, cache_vars>>

Next ==
    \/ ReceiveRequest
    \/ LoadConfigAndProfile
    \/ MapFormFields
    \/ ResumeLookup
    \/ CoverLetter
    \/ ContentAndRespond

Spec == Init /\ [][Next]_vars

\* Two requests served at the same time by two threads, each logging its
\* request and recording one API call
LogInit == Init /\ data = NoData

LogNext ==
    \E t \in Threads :
        \/ LogRequest(t)
        \/ LogWrite(t)
        \/ LogClose(t)
        \/ TrackerLogCall(t)

SpecLog == LogInit /\ [][LogNext]_vars

\* One call of call_with_retry with any max_retries up to MaxRetries
RetryInit ==
    /\ HandlerStart /\ data = NoData
    /\ LogStart /\ CacheStart
    /\ r_pc = "loop"
    /\ r_max \in 0..MaxRetries
    /\ r_attempt = 0
    /\ r_calls = 0
    /\ r_sleeps = <<>>
    /\ r_error = [kind |-> "none", header |-> [kind |-> "absent", ahead |-> 0]]
    /\ r_out = NoOutcome

RetryNext == RetryLoop \/ RetryCall \/ RetryHandle

\* The function runs in one thread that is never suspended for ever:
\* time.sleep returns and api_call_func returns or raises
SpecRetry == RetryInit /\ [][RetryNext]_vars /\ WF_vars(RetryNext)

\* ===================================================================== claims
InputIds == {data.fields[i].id : i \in 1..Len(data.fields)}
NeedsSet == {needs_human[i] : i \in 1..Len(needs_human)}
Completed == pc = "done" /\ response.status = "complete"
Resolved == pc \in {"resume", "cover", "content"} \/ Completed

Entries == 1..Len(field_mapping)

\* C1: in a completed request no field id is both a key of fill_values and an
\* element of needs_human.
C1_FillAndEscalationDisjoint ==
    Completed => DOMAIN fill_values \cap NeedsSet = {}

IsFilled(fid) ==
    \/ fid \in DOMAIN fill_values
    \/ \E i \in Entries :
         /\ field_mapping[i].id = fid
         /\ mapping_starts_with(field_mapping[i].value, T_RESUME)
         /\ "resume" \in DOMAIN files

IsSkipped(fid) ==
    \E i \in Entries :
        field_mapping[i].id = fid /\ mapping_starts_with(field_mapping[i].value, T_SKIP)

\* C2: in a completed request every field id of the input field list is
\* filled, escalated or explicitly skipped, also when the mapping does not
\* mention it.
C2_EveryInputFieldHasOutcome ==
    Completed =>
        \A fid \in InputIds : IsFilled(fid) \/ fid \in NeedsSet \/ IsSkipped(fid)

\* C3: an ACKNOWLEDGE_TRUE field (bare or suffixed) is a key of fill_values
\* with the value 'Yes' and is never in needs_human, whatever the content
\* generator returns.
C3_AcknowledgeAlwaysYes ==
    Completed =>
        \A i \in Entries :
            mapping_starts_with(field_mapping[i].value, T_ACK) =>
                /\ field_mapping[i].id \in DOMAIN fill_values
                /\ fill_values[field_mapping[i].id] = StrV(<<"Yes">>)
                /\ field_mapping[i].id \notin NeedsSet

\* The scenario of C4: the four-field mapping, the e-mail resolved, no resume
\* found, generation succeeding for f3
InScenario ==
    /\ field_mapping = ScenarioMapping
    /\ "f1" \in DOMAIN field_values
    /\ "resume" \notin DOMAIN files
    /\ generated_content = ("f3" :> GeneratedText)

C5_UnparsableMappingEscalatesAll ==
    (pc = "done" /\ "mapping_parse" \in failed) =>
        /\ response.status = "complete"
        /\ field_mapping = <<>>
        /\ InputIds \subseteq NeedsSet

\* C6: when the cover-letter collaborator raises, the content generator
\* raises or the resume lookup fails, the response is the complete one, with
\* field_mappings, fill_values, files and needs_human, and every field that
\* depended on the failed step is in needs_human.
C6_StepFailuresDegrade ==
    (pc = "done" /\ failed \cap {"cover_letter", "content", "resume"} # {}) =>
        /\ response.status = "complete" /\ response.code = 200
        /\ {"field_mappings", "fill_values", "files", "needs_human"}
               \subseteq response.keys
        /\ "resume" \in failed =>
              \A i \in resume_fields(field_mapping) : field_mapping[i].id \in NeedsSet
        /\ "cover_letter" \in failed =>
              \A i \in content_fields(field_mapping) : field_mapping[i].id \in NeedsSet
        /\ "content" \in failed =>
              \A i \in content_fields(field_mapping) : field_mapping[i].id \in NeedsSet

C6_Witness ==
    /\ pc = "done"
    /\ {"content", "resume"} \subseteq failed
    /\ Len(needs_human) >= 2

\* C7: map_form_fields raising is not surfaced as a failed request (the
\* response has status complete); only a missing request body or a failure to
\* load the configuration or profile gives status error.
C7_MappingFailureNotSurfaced ==
    pc = "done" =>
        /\ "mapping" \in failed => response.status = "complete"
        /\ response.status = "error" =>
              data.kind \in {"none", "empty"} \/ "load" \in failed

\* C8: a request whose JSON body is missing or empty is answered with status
\* error and HTTP 400, and nothing is loaded and no collaborator is invoked
\* for it.
C8_EmptyBodyRejected ==
    data.kind \in {"none", "empty"} =>
        /\ calls = ZeroCalls
        /\ profile = NoneV
        /\ pc = "done" => response.status = "error" /\ response.code = 400

C8_Witness == data.kind = "empty" /\ pc = "done"

\* A mapping value the resolver treats as a profile path
IsPathAction(mapping_value) ==
    /\ mapping_value.t = "str"
    /\ HasDot(mapping_value.v)
    /\ ~\E tag \in SPECIAL_ACTIONS : StartsWith(mapping_value.v, tag)

\* The options of the field a mapping id names, none for an unknown field
OptionsOf(fid) ==
    LET fm == BuildFieldMap(data.fields)
    IN IF fid \in DOMAIN fm THEN fm[fid].options ELSE <<>>

MatchWords(b) == IF b THEN {"yes", "true"} ELSE {"no", "false"}

MatchingOptions(opts, b) ==
    {j \in 1..Len(opts) :
        Lower(opts[j].value) \in MatchWords(b) \/ Lower(opts[j].text) \in MatchWords(b)}

\* C9: the value the resolver gives a field whose path resolves to a boolean
\* is never the raw boolean: it is the value of a matching option, and 'Yes'
\* or 'No' when no option matches, the options are empty or the field is
\* unknown.
C9_BooleanNeverRaw ==
    Resolved =>
        \A i \in Entries :
            LET e == field_mapping[i]
                r == LookupPath(e.value, profile)
                opts == OptionsOf(e.id)
                m == MatchingOptions(opts, r.val.v = <<"True">>)
            IN (IsPathAction(e.value) /\ r.ok /\ r.val.t = "bool") =>
                   /\ e.id \in DOMAIN field_values
                   /\ field_values[e.id].t = "str"
                   /\ IF m = {}
                      THEN field_values[e.id].v =
                               (IF r.val.v = <<"True">> THEN <<"Yes">> ELSE <<"No">>)
                      ELSE \E j \in m : field_values[e.id].v = <<opts[j].value>>

\* A dotted profile path that is no custom_answers path
IsPlainPath(mapping_value) ==
    IsPathAction(mapping_value) /\ ~StartsWith(mapping_value.v, CUSTOM_PREFIX)

\* C10: a field whose action is a dotted profile path is a key of fill_values
\* exactly when walking the path through nested mappings reaches a value other
\* than null and the empty string; otherwise it has no entry in fill_values
\* and is in needs_human.
C10_PathFilledIffReached ==
    Completed =>
        \A i \in Entries :
            LET e == field_mapping[i]
                r == WalkPath(profile, SplitDot(e.value.v, <<>>))
                reached == r.ok /\ r.val.t # "null"
                                /\ (r.val.t = "str" => r.val.v # <<>>)
            IN IsPlainPath(e.value) =>
                   /\ reached <=> e.id \in DOMAIN fill_values
                   /\ ~reached => e.id \in NeedsSet

\* A mapping value that starts with the custom_answers prefix
IsCustomPath(mapping_value) ==
    mapping_value.t = "str" /\ StartsWith(mapping_value.v, CUSTOM_PREFIX)

\* Everything after the prefix, dots included
CustomKey(mapping_value) ==
    SubSeq(mapping_value.v, Len(CUSTOM_PREFIX) + 1, Len(mapping_value.v))

HasCustomAnswer(key) ==
    /\ K("custom_answers") \in DOMAIN profile.v
    /\ key \in DOMAIN profile.v[K("custom_answers")].v

IsContentTag(mapping_value) ==
    /\ mapping_value.t = "str"
    /\ \E tag \in {T_CL_FULL, T_CL_BODY, T_CL_WHY, T_GENERATE} :
           StartsWith(mapping_value.v, tag)

\* C12: in a completed request a field whose action is a content-generation
\* tag is in needs_human exactly when generated_content has no entry for it;
\* when generated_content is empty, a GENERATE_ANSWER field is in needs_human
\* and is no key of fill_values.
C12_ContentFieldEscalatesIffNoAnswer ==
    Completed =>
        \A i \in Entries :
            LET e == field_mapping[i] IN
            IsContentTag(e.value) =>
                /\ e.id \in NeedsSet <=> e.id \notin DOMAIN generated_content
                /\ (generated_content = EmptyDict /\ StartsWith(e.value.v, T_GENERATE))
                       => e.id \in NeedsSet /\ e.id \notin DOMAIN fill_values

\* The batch was produced and gave nothing for a GENERATE_ANSWER field
C12_Witness ==
    /\ Completed
    /\ calls.content = 1
    /\ generated_content = EmptyDict
    /\ \E i \in Entries : mapping_starts_with(field_mapping[i].value, T_GENERATE)

\* The steps of one request in the order of the handler's code
StepOrder ==
    <<"mapping", "resolve", "resume", "cover_letter", "content", "classify", "merge">>

Rank(step) == CHOOSE i \in 1..Len(StepOrder) : StepOrder[i] = step

Ran(step) == \E i \in 1..Len(trace) : trace[i] = step

\* C14: in every request the mapping generator, the cover-letter collaborator
\* and the content generator are each invoked at most once and in that order:
\* the steps of the request run in the order mapping call, profile
\* resolution, resume lookup, cover-letter call, content batch call,
\* classification, merge, none of them twice, and none without the mapping
\* call before it; the content batch call follows a cover-letter call.
C14_CollaboratorsOnceInOrder ==
    /\ \A i, j \in 1..Len(trace) : i < j => Rank(trace[i]) < Rank(trace[j])
    /\ trace # <<>> => trace[1] = "mapping"
    /\ Ran("content") => Ran("cover_letter")
    /\ Ran("classify") => Ran("resolve")
    /\ \A c \in {"mapping", "cover_letter", "content"} : calls[c] <= 1

\* A request in which every step ran
C14_Witness == Completed /\ trace = StepOrder

\* A mapping value that is null, NEEDS_HUMAN or SKIP, bare or with a suffix
IsHumanAction(mapping_value) ==
    \/ mapping_value.t = "null"
    \/ /\ mapping_value.t = "str"
       /\ StartsWith(mapping_value.v, T_NEEDS_HUMAN) \/ StartsWith(mapping_value.v, T_SKIP)

\* C16: in a completed request a field whose mapping value is null,
\* NEEDS_HUMAN or SKIP (bare or with a suffix) is in needs_human, whatever
\* value the resolver or the generator produced for its id.
C16_HumanActionsAlwaysEscalate ==
    Completed =>
        \A i \in Entries :
            IsHumanAction(field_mapping[i].value) => field_mapping[i].id \in NeedsSet

\* The generator produced a value for the id of such a field
C16_Witness ==
    /\ Completed
    /\ \E i \in Entries :
          /\ IsHumanAction(field_mapping[i].value)
          /\ field_mapping[i].id \in DOMAIN generated_content
          /\ field_mapping[i].id \in NeedsSet

\* The ids of the content batch: the fields with a content-generation tag
BatchIds == {field_mapping[i].id : i \in {k \in Entries : IsContentTag(field_mapping[k].value)}}

\* C17: the content generator is invoked exactly when the batch is not empty
\* and the cover-letter body or the why-paragraph is not empty; when it is
\* not invoked, no field of the batch is a key of fill_values and every field
\* of the batch is in needs_human.
C17_GeneratorInvokedIffGrounded ==
    /\ calls.content > 0 =>
           BatchIds # {} /\ (cover_letter_text # "" \/ why_paragraph # "")
    /\ Completed =>
           /\ (BatchIds # {} /\ (cover_letter_text # "" \/ why_paragraph # ""))
                  => calls.content = 1
           /\ calls.content = 0 =>
                  \A fid \in BatchIds : fid \notin DOMAIN fill_values /\ fid \in NeedsSet

\* The cover letter ran but left no text: the batch is not requested
C17_Witness ==
    /\ Completed
    /\ BatchIds # {}
    /\ calls.cover_letter = 1
    /\ calls.content = 0

\* The entries of the generator's reply, none when it is no object
ReplyEntries == IF batch_answers.t = "obj" THEN batch_answers.v ELSE <<>>

\* A reply that is no mapping from field id to text
Malformed ==
    \/ "content_parse" \in failed
    \/ batch_answers # Absent /\ batch_answers.t # "obj"
    \/ \E k \in 1..Len(ReplyEntries) : ReplyEntries[k].value.t # "str"

\* C18: when the content generator's reply is malformed (invalid JSON, a JSON
\* value that is no object, or an object with an entry that is no text), the
\* request completes, no field of the batch has a generated value and every
\* field of the batch is in needs_human.
C18_MalformedReplyFailsWholeBatch ==
    (pc = "done" /\ Malformed) =>
        /\ Completed
        /\ \A fid \in BatchIds :
              fid \notin DOMAIN generated_content /\ fid \in NeedsSet

\* A reply entry whose text equals or starts with NEEDS_HUMAN
IsRefusal(value) == value.t = "str" /\ StartsWith(value.v, T_NEEDS_HUMAN)

\* A reply entry the loop stores when it reaches it
IsAnswer(value) == value.t = "str" /\ value.v # <<>> /\ ~IsRefusal(value)

CoverIds ==
    {field_mapping[i].id :
        i \in {k \in Entries :
                  /\ field_mapping[k].value.t = "str"
                  /\ \E tag \in {T_CL_FULL, T_CL_BODY, T_CL_WHY} :
                         StartsWith(field_mapping[k].value.v, tag)}}

CoverLetterDue ==
    CoverIds # {} /\ data.company_name # "" /\ data.role_title # ""

\* C20: run_pipeline is invoked only when a mapping value matches a
\* COVER_LETTER_* tag and company_name and role_title are both non-empty,
\* and then exactly once; otherwise it is not invoked, files has no
\* cover_letter entry and the cover-letter fields are in needs_human.
C20_CoverLetterOnlyWhenDue ==
    /\ calls.cover_letter <= 1
    /\ calls.cover_letter = 1 => CoverLetterDue
    /\ (pc = "content" \/ Completed) =>
           IF CoverLetterDue THEN calls.cover_letter = 1
           ELSE /\ calls.cover_letter = 0
                /\ "cover_letter" \notin DOMAIN files
                /\ Completed => \A fid \in CoverIds : fid \in NeedsSet

\* A cover-letter field in a request that names the role but not the company
C20_Witness ==
    /\ Completed
    /\ CoverIds # {}
    /\ data.company_name = "" /\ data.role_title # ""
    /\ calls.cover_letter = 0
    /\ \A fid \in CoverIds : fid \in NeedsSet

\* The entry a line of a log file belongs to
Owner(line) == <<line.thread, line.label>>

\* The parts of one entry that are in a file, in the order of the file
PartsOf(file, thread, label) ==
    LET mine == SelectSeq(disk[file],
                          LAMBDA l : l.thread = thread /\ l.label = label)
    IN [i \in 1..Len(mine) |-> mine[i].part]

\* C15: when two requests are served concurrently no appended record is lost
\* (every closed log entry is in its file with all its lines in order, every
\* thread that recorded an API call is once in tracker.calls) and the lines
\* of one log entry are never interleaved with the lines of another entry.
C15_NoLossNoInterleaving ==
    /\ \A c \in closed :
          PartsOf(c.file, c.thread, c.label) = [i \in 1..c.parts |-> i]
    /\ \A t \in Threads :
          (lpc[t] = "finished" \/ cur[t].label = "API_CALL") =>
              Len(SelectSeq(tracker_calls, LAMBDA x : x = t)) = 1
    /\ \A f \in LogFiles :
          \A i, j, k \in 1..Len(disk[f]) :
              (i < j /\ j < k /\ Owner(disk[f][i]) = Owner(disk[f][k]))
                  => Owner(disk[f][j]) = Owner(disk[f][i])

\* The fields whose action matches RESUME_UPLOAD
ResumeIds ==
    {field_mapping[i].id :
        i \in {k \in Entries : /\ field_mapping[k].value.t = "str"
                               /\ StartsWith(field_mapping[k].value.v, T_RESUME)}}

\* The resume locator was consulted and returned a path
ResumeLocated == calls.resume = 1 /\ "resume" \notin failed

\* C21: a RESUME_UPLOAD field is in needs_human exactly when no resume file
\* was located; when one is located files.resume is set, by the one lookup
\* of the request, and no RESUME_UPLOAD field escalates; the locator is
\* consulted only when a RESUME_UPLOAD field exists, and at most once.
C21_ResumeEscalatesIffNotLocated ==
    /\ calls.resume <= 1
    /\ calls.resume = 1 => ResumeIds # {}
    /\ "resume" \in DOMAIN files <=> ResumeLocated
    /\ Completed => \A fid \in ResumeIds : fid \in NeedsSet <=> ~ResumeLocated

\* A resume was located and the RESUME_UPLOAD fields do not escalate
C21_Witness ==
    /\ Completed
    /\ ResumeIds # {}
    /\ ResumeLocated
    /\ ResumeIds \cap NeedsSet = {}

\* The options whose value or text is the given word, compared in lower case
OptionsEqual(opts, word) ==
    {j \in 1..Len(opts) : Lower(opts[j].value) = word \/ Lower(opts[j].text) = word}

\* C22: for a true profile value the coercion gives the field the value of
\* an option whose value or text equals 'yes' in lower case whenever there
\* is such an option, also when an option equal to 'true' comes first; for a
\* false value it does so with 'no' before 'false'.
C22_YesPreferredOverTrue ==
    Resolved =>
        \A i \in Entries :
            LET e == field_mapping[i]
                r == LookupPath(e.value, profile)
                opts == OptionsOf(e.id)
                pref == OptionsEqual(opts, IF r.val.v = <<"True">> THEN "yes" ELSE "no")
            IN (IsPathAction(e.value) /\ r.ok /\ r.val.t = "bool" /\ pref # {}) =>
                   /\ e.id \in DOMAIN field_values
                   /\ \E j \in pref : field_values[e.id] = StrV(<<opts[j].value>>)

\* An option equal to 'true' or 'false' precedes the option that was chosen
C22_Witness ==
    /\ Resolved
    /\ \E i \in Entries :
          LET e == field_mapping[i]
              r == LookupPath(e.value, profile)
              opts == OptionsOf(e.id)
          IN /\ IsPathAction(e.value) /\ r.ok /\ r.val.t = "bool"
             /\ e.id \in DOMAIN field_values
             /\ \E j, k \in 1..Len(opts) :
                   /\ j < k
                   /\ Lower(opts[j].value) \in {"true", "false"}
                   /\ k \in OptionsEqual(opts, IF r.val.v = <<"True">> THEN "yes" ELSE "no")
                   /\ j \notin OptionsEqual(opts, IF r.val.v = <<"True">> THEN "yes" ELSE "no")
                   /\ field_values[e.id] = StrV(<<opts[k].value>>)

\* A string that matches no action tag by prefix and holds no '.'
IsPlainWord(mapping_value) ==
    /\ mapping_value.t = "str"
    /\ mapping_value.v # <<>>
    /\ Head(mapping_value.v) \notin {Head(tag) : tag \in SPECIAL_ACTIONS}
    /\ \A k \in 1..Len(mapping_value.v) : mapping_value.v[k] # "."

\* C23: a mapping value that is a string matching no action tag and holding
\* no '.' is unresolvable: the resolver gives the field no value, also when
\* the profile has a top-level key of that name, and in a completed request
\* the field is in needs_human.
C23_PlainWordUnresolvable ==
    Resolved =>
        \A i \in Entries :
            IsPlainWord(field_mapping[i].value) =>
                /\ field_mapping[i].id \notin DOMAIN field_values
                /\ Completed => field_mapping[i].id \in NeedsSet

\* The word names a top-level key of the profile
C23_Witness ==
    /\ Completed
    /\ \E i \in Entries :
          /\ IsPlainWord(field_mapping[i].value)
          /\ field_mapping[i].value.v \in DOMAIN profile.v
          /\ field_mapping[i].id \in NeedsSet

\* The tag a suffixed mapping value starts with
TagOf(mapping_value) ==
    CHOOSE tag \in SPECIAL_ACTIONS : Head(mapping_value.v) = Head(tag)

\* An action tag followed by a suffix
IsSuffixedTag(mapping_value) ==
    /\ mapping_value.t = "str"
    /\ Len(mapping_value.v) > 1
    /\ \E tag \in SPECIAL_ACTIONS : Head(mapping_value.v) = Head(tag)

\* C24: a field whose mapping value is an action tag followed by a suffix
\* gets in every stage the decision the bare tag would get: the same
\* resolver outcome, the same membership in the resume lookup, the
\* cover-letter fields and the content batch, and the same escalation.
C24_SuffixedTagLikeBareTag ==
    Resolved =>
        \A i \in Entries :
            LET e == field_mapping[i]
                bare == StrV(TagOf(e.value))
                one == ResolveOne(e.id, bare, profile, BuildFieldMap(data.fields))
            IN IsSuffixedTag(e.value) =>
                   /\ e.id \in DOMAIN field_values <=> one.kind = "fill"
                   /\ e.id \in DOMAIN field_values => field_values[e.id] = one.value
                   /\ i \in resume_fields(field_mapping)
                          <=> mapping_starts_with(bare, T_RESUME)
                   /\ i \in cover_letter_fields(field_mapping)
                          <=> IsCoverLetterAction(bare)
                   /\ i \in content_fields(field_mapping) <=> IsContentAction(bare)
                   /\ Completed =>
                          (e.id \in NeedsSet
                              <=> NeedsHuman(e.id, bare, field_values, files,
                                            generated_content))

\* A suffixed content tag whose suffix holds a dot was answered by the batch
C24_Witness ==
    /\ Completed
    /\ \E i \in Entries :
          /\ IsSuffixedTag(field_mapping[i].value)
          /\ \E k \in 1..Len(field_mapping[i].value.v) : field_mapping[i].value.v[k] = "."
          /\ field_mapping[i].id \in DOMAIN generated_content
          /\ field_mapping[i].id \notin NeedsSet

\* A sequence without its i-th element
RemoveAt(seq, i) == SubSeq(seq, 1, i - 1) \o SubSeq(seq, i + 1, Len(seq))

\* A mapping value whose resolution fails: a path the profile does not have
\* (missing key, or an intermediate value that is no mapping), or a value
\* that is neither a string nor null
FailsToResolve(mapping_value) ==
    \/ IsPathAction(mapping_value) /\ ~LookupPath(mapping_value, profile).ok
    \/ mapping_value.t \in {"num", "list", "dict"}

\* C25: the resolver never raises, and a field whose resolution fails gets
\* no value and, in a completed request, is in needs_human, while the values
\* of the other fields are those the resolver gives for the mapping without
\* the failing field.
C25_ResolutionErrorIsolated ==
    /\ "resolve" \notin failed
    /\ Resolved =>
           \A i \in Entries :
               FailsToResolve(field_mapping[i].value) =>
                   /\ field_mapping[i].id \notin DOMAIN field_values
                   /\ Completed => field_mapping[i].id \in NeedsSet
                   /\ field_values =
                          resolve_profile_values(RemoveAt(field_mapping, i), profile,
                                                 data.fields).values

\* C26: in a completed request the keys of fill_values are the ids that have
\* a resolver value or a generated entry; an id that has both holds the
\* generated text, every other id holds the value of the one source that
\* has it.
C26_GeneratedWinsOnCollision ==
    Completed =>
        /\ DOMAIN fill_values = DOMAIN field_values \cup DOMAIN generated_content
        /\ \A fid \in DOMAIN fill_values :
              fill_values[fid] = IF fid \in DOMAIN generated_content
                                 THEN generated_content[fid]
                                 ELSE field_values[fid]

\* An id that has a resolver value and a different generated text
C26_Witness ==
    /\ Completed
    /\ \E fid \in DOMAIN field_values \cap DOMAIN generated_content :
          field_values[fid] # generated_content[fid]

\* C27: every key of fill_values is a field id of the mapping, and
\* generated_content has entries only for fields whose action is a
\* content-generation tag: an entry returned for any other id does not reach
\* fill_values.
C27_OnlyBatchFieldsGenerated ==
    Completed =>
        /\ DOMAIN fill_values \subseteq MappingIds(field_mapping)
        /\ DOMAIN generated_content \subseteq BatchIds

\* The fields whose action matches GENERATE_ANSWER
GenerateIds ==
    {field_mapping[i].id :
        i \in {k \in Entries : /\ field_mapping[k].value.t = "str"
                               /\ StartsWith(field_mapping[k].value.v, T_GENERATE)}}

\* C28: in a request whose mapping has GENERATE_ANSWER fields but no
\* COVER_LETTER_* field the cover-letter collaborator is not invoked, the
\* body and the why paragraph stay empty, the content generator is not
\* invoked, and every GENERATE_ANSWER field ends in needs_human, whatever
\* company_name and role_title are.
C28_GenerateNeedsCoverField ==
    (Resolved /\ GenerateIds # {} /\ CoverIds = {}) =>
        /\ calls.cover_letter = 0
        /\ cover_letter_text = "" /\ why_paragraph = ""
        /\ calls.content = 0
        /\ Completed => GenerateIds \subseteq NeedsSet

\* Such a request, with company_name and role_title supplied
C28_Witness ==
    /\ Completed
    /\ GenerateIds # {} /\ CoverIds = {}
    /\ data.company_name # "" /\ data.role_title # ""
    /\ GenerateIds \subseteq NeedsSet

\* Any sequence of set, get and get_company_context calls, with time passing
CacheInit == Init /\ data = NoData

CacheNext ==
    \/ \E n \in CompanyNames, c \in Contents : CacheSet(n, c)
    \/ \E n \in CompanyNames : CacheGet(n)
    \/ \E n \in CompanyNames : GetCompanyContext(n)
    \/ Tick

SpecCache == CacheInit /\ [][CacheNext]_vars

ExpectedGet(n) ==
    IF c_sets[n].made /\ c_now - c_sets[n].at <= MAX_AGE_DAYS
    THEN c_sets[n].content
    ELSE NONE

\* C30: get(name) returns the content most recently stored by set for that
\* same company name if it is no older than max_age_days and None otherwise,
\* never content stored under another name; when get finds content,
\* get_company_context makes no research call.
C30_CacheReturnsOwnFreshContent ==
    [][\A n \in CompanyNames :
          /\ CacheGet(n) => c_got'.result = ExpectedGet(n)
          /\ GetCompanyContext(n) /\ ExpectedGet(n) # NONE =>
                /\ c_research' = c_research
                /\ c_got'.result = ExpectedGet(n)]_vars

====
